---- MODULE Spec2Model ----
(***************************************************************************)
(* A model of the video composition and segment-timing engine of the       *)
(* short-form video pipeline:                                              *)
(*   VideoComposer.compose_video and its helpers (video_composer.py),      *)
(*   WhisperSubtitles._create_subtitle_segments (whisper_subtitles.py).    *)
(* Times and durations are whole ticks: the code compares, subtracts and   *)
(* divides them, and every comparison it makes is decided by the ticks.    *)
(***************************************************************************)
EXTENDS Integers, Sequences, FiniteSets, TLC

(***************************************************************************)
(* Bounds of the model.                                                    *)
(***************************************************************************)
MaxAudioDuration == 5      \* narration audio lasts 1..MaxAudioDuration ticks
MaxSourceDuration == 2     \* background video lasts 1..MaxSourceDuration ticks (compose_video)
MaxPartDuration == 2       \* PipelineConfig.MAX_VIDEO_DURATION ranges over 1..MaxPartDuration
MaxSubtitles == 1          \* subtitles handed to compose_video
MaxRenderSubtitles == 2    \* subtitles handed to _add_subtitles on its own
MaxSubtitleEnd == 2        \* subtitle times handed to compose_video lie in 0..MaxSubtitleEnd
MaxSourceDim == 18         \* the fitter is given sources of 1..MaxSourceDim pixels a side
MaxFitDuration == 6        \* the fitter is given durations 1..MaxFitDuration
MaxItems == 2              \* words plus word-less segments in one Whisper result
MaxTime == 2               \* word and segment times lie in 0..MaxTime
MaxWordCap == 2            \* max_words_per_segment ranges over 1..MaxWordCap
MaxFiles == 3              \* clean_old_files works on a directory of 0..MaxFiles files
MaxMtime == 2              \* modification times are 1..MaxMtime (files may tie)
MaxKeep == 2               \* keep_count is 0..MaxKeep
MaxTextLen == 4            \* _clean_subtitle_text is given texts of 0..MaxTextLen characters

(***************************************************************************)
(* Program constants.                                                      *)
(***************************************************************************)
OUTPUT_WIDTH == 1080
OUTPUT_HEIGHT == 1920
MAX_SUBTITLE_DURATION == 1
AUTO_CLEANUP_ON_SUCCESS == TRUE

VARIABLES
    PipelineConfig,     \* the configuration values compose_video reads
    pc,                 \* position inside compose_video
    subtitles_data,     \* argument of compose_video
    video_clip,         \* VideoFileClip(background_video_path)
    audio_clip,         \* AudioFileClip(audio_path)
    target_duration,
    final_video,        \* the clip that is exported
    subtitle_clips,     \* overlays built by _add_subtitles
    total_duration,     \* locals of _split_and_export_video
    num_parts,
    part_num,
    parts,              \* the windows <<start_time, end_time>> computed so far
    output_paths,
    opened,             \* media handles opened during the call
    closed,             \* media handles closed during the call
    files,              \* artifacts written to the final-videos directory
    result,             \* what compose_video returned or raised
    subtitle_failures,  \* history: the overlays _add_subtitles could not build
    temp_audiofiles,    \* the temp_audiofile names handed to write_videofile
    run_pc,             \* position inside run_pipeline, step 5
    final_video_path,   \* run_pipeline's local: what _compose_video returned
    whisper_result,     \* the transcription segments _create_subtitle_segments has read
    max_words_per_segment,
    sub_pc,             \* position inside _create_subtitle_segments
    subtitle_segments,  \* the list being built and returned
    current_segment,    \* the buffered words
    current_start,      \* None, or the start of the first buffered word
    buffered_words,     \* history: the word records behind current_segment
    segment_words,      \* history: the word records behind each emitted segment
    sub_result,         \* what _create_subtitle_segments returned
    raw_text,           \* argument of _clean_subtitle_text
    cleaned_text,       \* None, or what _clean_subtitle_text returned
    recleaned_text,     \* None, or what it returned for cleaned_text
    subtitle_system_status, \* None, or what check_subtitle_system returned
    stages,             \* history: the stages run_pipeline has started, in order
    results,            \* the results dictionary of run_pipeline
    directory,          \* the directory clean_old_files works on
    extension,          \* argument of clean_old_files
    keep_count,         \* argument of clean_old_files
    files_to_remove,    \* the old files still to be removed
    cleanup_pc,         \* position inside clean_old_files
    listed,             \* history: the directory when clean_old_files was called
    remove_failed       \* history: the files whose os.remove raised

composeVars == <<PipelineConfig, pc, subtitles_data, video_clip, audio_clip,
                 target_duration, final_video, subtitle_clips, total_duration,
                 num_parts, part_num, parts, output_paths, opened, closed,
                 files, result, subtitle_failures, temp_audiofiles, run_pc,
                 final_video_path>>

subVars == <<whisper_result, max_words_per_segment, sub_pc, subtitle_segments,
             current_segment, current_start, buffered_words, segment_words,
             sub_result>>

textVars == <<raw_text, cleaned_text, recleaned_text>>

runVars == <<subtitle_system_status, stages, results>>

cleanupVars == <<directory, extension, keep_count, files_to_remove, cleanup_pc,
                 listed, remove_failed>>

vars == <<composeVars, subVars, textVars, runVars, cleanupVars>>

(***************************************************************************)
(* Arithmetic helpers.                                                     *)
(***************************************************************************)
Min(a, b) == IF a <= b THEN a ELSE b
Max(a, b) == IF a >= b THEN a ELSE b

\* The least n with n * b >= a, for a >= 0 and b > 0 (the reference the
\* code's part count is compared with).
Ceil(a, b) == CHOOSE n \in 0..a : n * b >= a /\ (n = 0 \/ (n - 1) * b < a)

NoClip == [size |-> <<0, 0>>, duration |-> 0]
NoResult == [kind |-> "none", paths |-> <<>>]

\* No overlay has failed: the subtitles whose TextClip raised, and whether
\* the compositing as a whole raised.
NoFailures == [failed |-> {}, composite |-> FALSE]

\* Handles: the two file clips, the composed clip and one sub-clip per part.
VideoHandle == <<"video_clip", 0>>
AudioHandle == <<"audio_clip", 0>>
FinalHandle == <<"final_video", 0>>
SegmentHandle(n) == <<"video_segment", n>>

\* Artifact names: the single export and <base>_part<N>.mp4.
SinglePath == <<"output_path", 0>>
PartPath(n) == <<"part", n>>
TempAudioSingle == <<"temp-audio", 0>>

\* The single export's temporary name, used for every part.
TempAudioPart_Shared(n) == <<"temp-audio", 0>>

TempAudioPart(n) == <<"temp-audio-part", n>>

(***************************************************************************)
(* VideoComposer._process_background_video                                 *)
(***************************************************************************)
\* frame[:, x1:x2] on an axis of length n, as the crop's array slice takes it:
\* a negative index counts from the end, and the slice is cut to the axis.
SliceIndex(i, n) == IF i < 0 THEN Max(i + n, 0) ELSE Min(i, n)
SliceLen(x1, x2, n) == Max(SliceIndex(x2, n) - SliceIndex(x1, n), 0)

\* video_aspect > target_aspect, on positive dimensions.
IsWider(video_width, video_height) ==
    video_width * OUTPUT_HEIGHT > OUTPUT_WIDTH * video_height

\* new_width, new_height: int(new_height * video_aspect), int(new_width / video_aspect).
ScaledSize(video_width, video_height) ==
    IF IsWider(video_width, video_height)
    THEN <<(OUTPUT_HEIGHT * video_width) \div video_height, OUTPUT_HEIGHT>>
    ELSE <<OUTPUT_WIDTH, (OUTPUT_WIDTH * video_height) \div video_width>>

\* A crop that starts at the centre instead of half a crop before it.
CropStart_AtCentre(scaled, crop) == scaled \div 2

\* A crop taken from the left or top edge.
CropStart_FromEdge(scaled, crop) == 0

\* x_start (wider source) or y_start (taller source): centre minus half the crop.
CropStart(scaled, crop) == (scaled \div 2) - (crop \div 2)

\* The crop window the fitter computes: the axis cut, the scaled length of
\* that axis, x_start or y_start, and the length kept (no crop: the whole
\* axis from 0).
CropWindow(video_width, video_height) ==
    LET scaled == ScaledSize(video_width, video_height)
    IN  IF IsWider(video_width, video_height)
        THEN [axis |-> "x", scaled |-> scaled[1],
              start |-> CropStart(scaled[1], OUTPUT_WIDTH),
              length |-> OUTPUT_WIDTH]
        ELSE IF scaled[2] > OUTPUT_HEIGHT
             THEN [axis |-> "y", scaled |-> scaled[2],
                   start |-> CropStart(scaled[2], OUTPUT_HEIGHT),
                   length |-> OUTPUT_HEIGHT]
             ELSE [axis |-> "none", scaled |-> scaled[2], start |-> 0,
                   length |-> scaled[2]]

\* The size of processed_clip after resize and the centre crop.
FittedSize(video_width, video_height) ==
    LET scaled == ScaledSize(video_width, video_height)
    IN  IF IsWider(video_width, video_height)
        THEN LET x_start == CropStart(scaled[1], OUTPUT_WIDTH)
             IN  <<SliceLen(x_start, x_start + OUTPUT_WIDTH, scaled[1]), scaled[2]>>
        ELSE IF scaled[2] > OUTPUT_HEIGHT
             THEN LET y_start == CropStart(scaled[2], OUTPUT_HEIGHT)
                  IN  <<scaled[1], SliceLen(y_start, y_start + OUTPUT_HEIGHT, scaled[2])>>
             ELSE scaled

\* A loop count without the extra loop: the least n with n * source >= target.
LoopsNeeded_Minimal(source_duration, target) == Ceil(target, source_duration)

\* loops_needed = int(target_duration / video_clip.duration) + 1
LoopsNeeded(source_duration, target) == (target \div source_duration) + 1

\* A latest start that forgets to leave room for the window.
MaxStartTime_WholeSource(source_duration, target) == source_duration

\* max_start_time = max(0, video_clip.duration - target_duration)
MaxStartTime(source_duration, target) == Max(0, source_duration - target)

\* clip.subclip(t_start, t_end) of a clip lasting clip_duration: the window
\* and the duration t_end - t_start the new clip is given.
Subclip(clip_duration, t_start, t_end) ==
    [t_start |-> t_start, t_end |-> t_end, duration |-> t_end - t_start,
     inside |-> t_start >= 0 /\ t_end <= clip_duration]

\* A window cut as subclip(random_start, target_duration).
FitDuration_EndAtTarget(source_duration, target, random_start) ==
    LET cut == Subclip(source_duration, random_start, target)
    IN  [looped |-> source_duration < target,
         loops |-> LoopsNeeded(source_duration, target),
         raw_duration |-> source_duration,
         t_start |-> cut.t_start, t_end |-> cut.t_end,
         duration |-> cut.duration, inside |-> cut.inside]

\* The temporal fit: loop and trim a short source, window a long one at
\* random_start (the value random.uniform returned).
FitDuration(source_duration, target, random_start) ==
    IF source_duration < target
    THEN LET loops_needed == LoopsNeeded(source_duration, target)
             cut == Subclip(loops_needed * source_duration, 0, target)
         IN  [looped |-> TRUE, loops |-> loops_needed,
              raw_duration |-> loops_needed * source_duration,
              t_start |-> cut.t_start, t_end |-> cut.t_end,
              duration |-> cut.duration, inside |-> cut.inside]
    ELSE LET cut == Subclip(source_duration, random_start, random_start + target)
         IN  [looped |-> FALSE, loops |-> 1,
              raw_duration |-> source_duration,
              t_start |-> cut.t_start, t_end |-> cut.t_end,
              duration |-> cut.duration, inside |-> cut.inside]

\* processed_clip as _process_background_video returns it.
ProcessBackgroundVideo(clip, target, random_start) ==
    LET fit == FitDuration(clip.duration, target, random_start)
    IN  [size |-> FittedSize(clip.size[1], clip.size[2]),
         duration |-> fit.duration,
         fit |-> fit,
         crop |-> CropWindow(clip.size[1], clip.size[2])]

\* None and a held value, for current_start.
None == <<>>
Some(x) == <<x>>

\* _create_subtitle_segments has not been called.
SubIdle ==
    /\ whisper_result = <<>>
    /\ max_words_per_segment = 1
    /\ sub_pc = "idle"
    /\ subtitle_segments = <<>>
    /\ current_segment = <<>>
    /\ current_start = None
    /\ buffered_words = <<>>
    /\ segment_words = <<>>
    /\ sub_result = None

\* _clean_subtitle_text has not been called.
TextIdle ==
    /\ raw_text = <<>>
    /\ cleaned_text = None
    /\ recleaned_text = None

\* No key of the results dictionary is set.
NoResults ==
    [reddit_post |-> None, audio_path |-> None, background_video |-> None,
     subtitles |-> None, final_video_path |-> None]

\* The pipeline object has not been constructed.
RunIdle ==
    /\ subtitle_system_status = None
    /\ stages = <<>>
    /\ results = NoResults

\* No file of a given name in the directory.
NoFile == [ext |-> "", mtime |-> 0]

NoDirectory == [exists |-> FALSE, entries |-> <<>>]

\* clean_old_files has not been called.
CleanupIdle ==
    /\ directory = NoDirectory
    /\ extension = ""
    /\ keep_count = 0
    /\ files_to_remove = <<>>
    /\ cleanup_pc = "idle"
    /\ listed = NoDirectory
    /\ remove_failed = {}

(***************************************************************************)
(* Inputs of compose_video.                                                *)
(***************************************************************************)
\* The background video handed to compose_video: a landscape source.
SourceSizes == {<<1920, 1080>>}

ConfigChoices ==
    [SPLIT_LONG_VIDEOS : BOOLEAN,
     MAX_VIDEO_DURATION : 1..MaxPartDuration,
     GENERATE_SUBTITLES : BOOLEAN,
     RENDER_SUBTITLES : BOOLEAN]

\* The configuration as shipped: splitting and subtitles on.
DefaultConfig ==
    [SPLIT_LONG_VIDEOS |-> TRUE, MAX_VIDEO_DURATION |-> MaxPartDuration,
     GENERATE_SUBTITLES |-> TRUE, RENDER_SUBTITLES |-> TRUE]

Subtitle == {s \in [start : 0..MaxSubtitleEnd, end : 0..MaxSubtitleEnd] : s.start < s.end}

RECURSIVE SeqsUpTo(_, _)
SeqsUpTo(S, n) ==
    IF n = 0 THEN {<<>>}
    ELSE LET shorter == SeqsUpTo(S, n - 1)
         IN  shorter \cup {Append(q, x) : q \in {r \in shorter : Len(r) = n - 1}, x \in S}

SubtitleLists == SeqsUpTo(Subtitle, MaxSubtitles)

(***************************************************************************)
(* VideoComposer._add_subtitles                                            *)
(***************************************************************************)
\* A loop that stops at the first overlay that cannot be built.
BuildSubtitleClips_StopAtFailure(data, failed, i) ==
    LET first_failed == IF failed = {} THEN Len(data) + 1
                        ELSE CHOOSE k \in failed : \A j \in failed : k <= j
    IN  SubSeq(data, i, first_failed - 1)

\* subtitle_clips: one overlay per subtitle whose TextClip could be built,
\* in the order of subtitles_data, with its own start and end.
RECURSIVE BuildSubtitleClips(_, _, _)
BuildSubtitleClips(data, failed, i) ==
    IF i > Len(data) THEN <<>>
    ELSE IF i \in failed
         THEN BuildSubtitleClips(data, failed, i + 1)
         ELSE <<data[i]>> \o BuildSubtitleClips(data, failed, i + 1)

RECURSIVE MaxEnd(_)
MaxEnd(clips) ==
    IF clips = <<>> THEN 0 ELSE Max(clips[1].end, MaxEnd(Tail(clips)))

\* CompositeVideoClip([video_clip] + subtitle_clips): it lasts until the
\* latest end among its clips.
CompositeVideoClip(base, clips) ==
    [base EXCEPT !.duration = Max(base.duration, MaxEnd(clips)),
                 !.overlays = clips]

\* An _add_subtitles without the fallback to the clip it was given.
AddSubtitles_NoFallback(clip, data, failed, composite_fails) ==
    LET clips == BuildSubtitleClips(data, failed, 1)
    IN  IF clips # <<>> /\ ~composite_fails
        THEN CompositeVideoClip(clip, clips)
        ELSE [size |-> <<0, 0>>, duration |-> 0, overlays |-> <<>>]

\* The clip _add_subtitles returns: the composite, or the clip it was given
\* when no overlay could be built or compositing raised.
AddSubtitles(clip, data, failed, composite_fails) ==
    LET clips == BuildSubtitleClips(data, failed, 1)
    IN  IF clips # <<>> /\ ~composite_fails
        THEN CompositeVideoClip(clip, clips)
        ELSE clip

(***************************************************************************)
(* VideoComposer._split_and_export_video: the part windows                 *)
(***************************************************************************)
\* A part count that forgets the remainder.
NumParts_NoRemainder(total, max_duration) == total \div max_duration

\* One part more than the quotient, whatever the remainder.
NumParts_AlwaysExtra(total, max_duration) == (total \div max_duration) + 1

\* num_parts = int(total / max) + (1 if total % max > 0 else 0)
NumParts(total, max_duration) ==
    (total \div max_duration) + (IF total % max_duration > 0 THEN 1 ELSE 0)

\* start_time, end_time of part part_num (0-based)
PartWindow(n, total, max_duration) ==
    <<n * max_duration, Min((n + 1) * max_duration, total)>>

(***************************************************************************)
(* VideoComposer.compose_video, one action per step of the call.           *)
(***************************************************************************)
\* run_pipeline has reached its call of _compose_video: the three mandatory
\* stages gave their results and the subtitle stage ran if it is enabled.
RunAtCompose ==
    /\ subtitle_system_status =
           IF PipelineConfig.GENERATE_SUBTITLES
           THEN Some([textclip_working |-> TRUE])
           ELSE None
    /\ stages = IF PipelineConfig.GENERATE_SUBTITLES
                THEN <<"fetch", "narration", "background", "subtitles", "compose">>
                ELSE <<"fetch", "narration", "background", "compose">>
    /\ results = [reddit_post |-> Some("value"), audio_path |-> Some("value"),
                  background_video |-> Some("value"),
                  subtitles |-> IF PipelineConfig.GENERATE_SUBTITLES
                                THEN Some(subtitles_data) ELSE None,
                  final_video_path |-> None]

ComposeInit ==
    /\ PipelineConfig \in ConfigChoices
    /\ subtitles_data \in SubtitleLists
    /\ pc = "load_video"
    /\ video_clip = NoClip
    /\ audio_clip = NoClip
    /\ target_duration = 0
    /\ final_video = NoClip
    /\ subtitle_clips = <<>>
    /\ total_duration = 0
    /\ num_parts = 0
    /\ part_num = 0
    /\ parts = <<>>
    /\ output_paths = <<>>
    /\ opened = {}
    /\ closed = {}
    /\ files = {}
    /\ result = NoResult
    /\ subtitle_failures = NoFailures
    /\ temp_audiofiles = <<>>
    /\ run_pc = "compose"
    /\ final_video_path = NoResult
    /\ RunAtCompose
    /\ SubIdle
    /\ TextIdle
    /\ CleanupIdle

\* compose_video has not been called.
ComposeIdle ==
    /\ PipelineConfig = DefaultConfig
    /\ subtitles_data = <<>>
    /\ pc = "idle"
    /\ video_clip = NoClip
    /\ audio_clip = NoClip
    /\ target_duration = 0
    /\ final_video = NoClip
    /\ subtitle_clips = <<>>
    /\ total_duration = 0
    /\ num_parts = 0
    /\ part_num = 0
    /\ parts = <<>>
    /\ output_paths = <<>>
    /\ opened = {}
    /\ closed = {}
    /\ files = {}
    /\ result = NoResult
    /\ subtitle_failures = NoFailures
    /\ temp_audiofiles = <<>>
    /\ run_pc = "idle"
    /\ final_video_path = NoResult
    /\ RunIdle

\* except Exception as e: handle_api_error(...); raise
\* (stage: the step of compose_video that raised)
Raise ==
    /\ pc' = "raised"
    /\ result' = [kind |-> "raised", paths |-> <<>>, stage |-> pc]

\* video_clip = VideoFileClip(background_video_path)
LoadVideo ==
    /\ pc = "load_video"
    /\ \E size \in SourceSizes, d \in 1..MaxSourceDuration :
          video_clip' = [size |-> size, duration |-> d]
    /\ opened' = opened \cup {VideoHandle}
    /\ pc' = "load_audio"
    /\ UNCHANGED <<subVars, textVars, runVars, cleanupVars, PipelineConfig, subtitle_failures,
                   temp_audiofiles, run_pc, final_video_path,
                   subtitles_data, audio_clip, target_duration,
                   final_video, subtitle_clips, total_duration, num_parts,
                   part_num, parts, output_paths, closed, files, result>>

LoadVideoFails ==
    /\ pc = "load_video"
    /\ Raise
    /\ UNCHANGED <<subVars, textVars, runVars, cleanupVars, PipelineConfig, subtitle_failures,
                   temp_audiofiles, run_pc, final_video_path,
                   subtitles_data, video_clip, audio_clip,
                   target_duration, final_video, subtitle_clips, total_duration,
                   num_parts, part_num, parts, output_paths, opened, closed, files>>

\* audio_clip = AudioFileClip(audio_path); target_duration = audio_clip.duration
LoadAudio ==
    /\ pc = "load_audio"
    /\ \E d \in 1..MaxAudioDuration :
          /\ audio_clip' = [size |-> <<0, 0>>, duration |-> d]
          /\ target_duration' = d
    /\ opened' = opened \cup {AudioHandle}
    /\ pc' = "process_background"
    /\ UNCHANGED <<subVars, textVars, runVars, cleanupVars, PipelineConfig, subtitle_failures,
                   temp_audiofiles, run_pc, final_video_path,
                   subtitles_data, video_clip, final_video,
                   subtitle_clips, total_duration, num_parts, part_num, parts,
                   output_paths, closed, files, result>>

LoadAudioFails ==
    /\ pc = "load_audio"
    /\ Raise
    /\ UNCHANGED <<subVars, textVars, runVars, cleanupVars, PipelineConfig, subtitle_failures,
                   temp_audiofiles, run_pc, final_video_path,
                   subtitles_data, video_clip, audio_clip,
                   target_duration, final_video, subtitle_clips, total_duration,
                   num_parts, part_num, parts, output_paths, opened, closed, files>>

\* processed_video = self._process_background_video(video_clip, target_duration)
\* final_video = processed_video.set_audio(audio_clip)
ProcessBackground ==
    /\ pc = "process_background"
    /\ \E random_start \in 0..MaxStartTime(video_clip.duration, target_duration) :
          final_video' =
              LET processed == ProcessBackgroundVideo(video_clip, target_duration,
                                                      random_start)
              IN  [size |-> processed.size, duration |-> processed.duration,
                   fit |-> processed.fit, crop |-> processed.crop,
                   overlays |-> <<>>]
    /\ opened' = opened \cup {FinalHandle}
    /\ pc' = "subtitles"
    /\ UNCHANGED <<subVars, textVars, runVars, cleanupVars, PipelineConfig, subtitle_failures,
                   temp_audiofiles, run_pc, final_video_path,
                   subtitles_data, video_clip, audio_clip,
                   target_duration, subtitle_clips, total_duration, num_parts,
                   part_num, parts, output_paths, closed, files, result>>

\* _process_background_video re-raises whatever resize, crop, loop or subclip raised.
ProcessBackgroundFails ==
    /\ pc = "process_background"
    /\ Raise
    /\ UNCHANGED <<subVars, textVars, runVars, cleanupVars, PipelineConfig, subtitle_failures,
                   temp_audiofiles, run_pc, final_video_path,
                   subtitles_data, video_clip, audio_clip,
                   target_duration, final_video, subtitle_clips, total_duration,
                   num_parts, part_num, parts, output_paths, opened, closed, files>>

\* if subtitles_data and GENERATE_SUBTITLES and RENDER_SUBTITLES:
\*     final_video = self._add_subtitles(final_video, subtitles_data)
RenderSubtitles ==
    /\ pc = "subtitles"
    /\ subtitles_data # <<>>
    /\ PipelineConfig.GENERATE_SUBTITLES
    /\ PipelineConfig.RENDER_SUBTITLES
    /\ \E failed \in SUBSET (1..Len(subtitles_data)), composite_fails \in BOOLEAN :
          /\ subtitle_clips' = BuildSubtitleClips(subtitles_data, failed, 1)
          /\ final_video' = AddSubtitles(final_video, subtitles_data, failed,
                                         composite_fails)
          /\ subtitle_failures' =
                 [failed |-> failed,
                  composite |-> composite_fails
                                /\ BuildSubtitleClips(subtitles_data, failed, 1) # <<>>]
    /\ pc' = "output_path"
    /\ UNCHANGED <<subVars, textVars, runVars, cleanupVars, PipelineConfig,
                   temp_audiofiles, run_pc, final_video_path,
                   subtitles_data, video_clip, audio_clip,
                   target_duration, total_duration, num_parts, part_num, parts,
                   output_paths, opened, closed, files, result>>

SkipSubtitles ==
    /\ pc = "subtitles"
    /\ ~(subtitles_data # <<>> /\ PipelineConfig.GENERATE_SUBTITLES
         /\ PipelineConfig.RENDER_SUBTITLES)
    /\ pc' = "output_path"
    /\ UNCHANGED <<subVars, textVars, runVars, cleanupVars, PipelineConfig, subtitle_failures,
                   temp_audiofiles, run_pc, final_video_path,
                   subtitles_data, video_clip, audio_clip,
                   target_duration, final_video, subtitle_clips, total_duration,
                   num_parts, part_num, parts, output_paths, opened, closed,
                   files, result>>

\* A split test that also splits a video exactly as long as the limit.
NeedsSplit_NotStrict ==
    /\ PipelineConfig.SPLIT_LONG_VIDEOS
    /\ target_duration >= PipelineConfig.MAX_VIDEO_DURATION

\* The test that sends compose_video to the splitter.
NeedsSplit ==
    /\ PipelineConfig.SPLIT_LONG_VIDEOS
    /\ target_duration > PipelineConfig.MAX_VIDEO_DURATION

\* output_path = self._generate_output_path(output_filename), then the branch.
\* The split branch enters _split_and_export_video, which reads the duration
\* of the clip it is given and computes num_parts.
GenerateOutputPath ==
    /\ pc = "output_path"
    /\ IF NeedsSplit
       THEN /\ pc' = "split"
            /\ total_duration' = final_video.duration
            /\ num_parts' = NumParts(final_video.duration,
                                     PipelineConfig.MAX_VIDEO_DURATION)
       ELSE /\ pc' = "single"
            /\ UNCHANGED <<total_duration, num_parts>>
    /\ UNCHANGED <<subVars, textVars, runVars, cleanupVars, PipelineConfig, subtitle_failures,
                   temp_audiofiles, run_pc, final_video_path,
                   subtitles_data, video_clip, audio_clip,
                   target_duration, final_video, subtitle_clips, part_num, parts,
                   output_paths, opened, closed, files, result>>

\* ensure_directory raises when the output directory cannot be created.
GenerateOutputPathFails ==
    /\ pc = "output_path"
    /\ Raise
    /\ UNCHANGED <<subVars, textVars, runVars, cleanupVars, PipelineConfig, subtitle_failures,
                   temp_audiofiles, run_pc, final_video_path,
                   subtitles_data, video_clip, audio_clip,
                   target_duration, final_video, subtitle_clips, total_duration,
                   num_parts, part_num, parts, output_paths, opened, closed, files>>

\* final_video.write_videofile(output_path, ...), the three close() calls, return output_path
ExportSingle ==
    /\ pc = "single"
    /\ files' = files \cup {SinglePath}
    /\ closed' = closed \cup {VideoHandle, AudioHandle, FinalHandle}
    /\ result' = [kind |-> "path", paths |-> <<SinglePath>>]
    /\ pc' = "returned"
    /\ temp_audiofiles' = Append(temp_audiofiles, TempAudioSingle)
    /\ UNCHANGED <<subVars, textVars, runVars, cleanupVars, PipelineConfig, subtitle_failures,
                   run_pc, final_video_path,
                   subtitles_data, video_clip, audio_clip,
                   target_duration, final_video, subtitle_clips, total_duration,
                   num_parts, part_num, parts, output_paths, opened>>

ExportSingleFails ==
    /\ pc = "single"
    /\ Raise
    /\ temp_audiofiles' = Append(temp_audiofiles, TempAudioSingle)
    /\ UNCHANGED <<subVars, textVars, runVars, cleanupVars, PipelineConfig, subtitle_failures,
                   run_pc, final_video_path,
                   subtitles_data, video_clip, audio_clip,
                   target_duration, final_video, subtitle_clips, total_duration,
                   num_parts, part_num, parts, output_paths, opened, closed, files>>

\* One iteration of "for part_num in range(num_parts)": the window, the path,
\* the sub-clip, its export and its close().
ExportPart ==
    /\ pc = "split"
    /\ part_num < num_parts
    /\ parts' = Append(parts, PartWindow(part_num, total_duration,
                                         PipelineConfig.MAX_VIDEO_DURATION))
    /\ output_paths' = Append(output_paths, PartPath(part_num + 1))
    /\ opened' = opened \cup {SegmentHandle(part_num + 1)}
    /\ files' = files \cup {PartPath(part_num + 1)}
    /\ closed' = closed \cup {SegmentHandle(part_num + 1)}
    /\ part_num' = part_num + 1
    /\ temp_audiofiles' = Append(temp_audiofiles, TempAudioPart(part_num + 1))
    /\ UNCHANGED <<subVars, textVars, runVars, cleanupVars, PipelineConfig, subtitle_failures,
                   run_pc, final_video_path,
                   pc, subtitles_data, video_clip, audio_clip,
                   target_duration, final_video, subtitle_clips, total_duration,
                   num_parts, result>>

\* The same iteration when write_videofile raises: the path was appended and
\* the sub-clip made, the close() is not reached; _split_and_export_video
\* re-raises and so does compose_video.
ExportPartFails ==
    /\ pc = "split"
    /\ part_num < num_parts
    /\ parts' = Append(parts, PartWindow(part_num, total_duration,
                                         PipelineConfig.MAX_VIDEO_DURATION))
    /\ output_paths' = Append(output_paths, PartPath(part_num + 1))
    /\ opened' = opened \cup {SegmentHandle(part_num + 1)}
    /\ Raise
    /\ temp_audiofiles' = Append(temp_audiofiles, TempAudioPart(part_num + 1))
    /\ UNCHANGED <<subVars, textVars, runVars, cleanupVars, PipelineConfig, subtitle_failures,
                   run_pc, final_video_path,
                   subtitles_data, video_clip, audio_clip,
                   target_duration, final_video, subtitle_clips, total_duration,
                   num_parts, part_num, closed, files>>

\* return output_paths from the splitter, the three close() calls, return output_paths
SplitReturn ==
    /\ pc = "split"
    /\ part_num >= num_parts
    /\ closed' = closed \cup {VideoHandle, AudioHandle, FinalHandle}
    /\ result' = [kind |-> "list", paths |-> output_paths]
    /\ pc' = "returned"
    /\ UNCHANGED <<subVars, textVars, runVars, cleanupVars, PipelineConfig, subtitle_failures,
                   temp_audiofiles, run_pc, final_video_path,
                   subtitles_data, video_clip, audio_clip,
                   target_duration, final_video, subtitle_clips, total_duration,
                   num_parts, part_num, parts, output_paths, opened, files>>

(***************************************************************************)
(* ShortFormVideoPipeline.run_pipeline, step 5: the call of _compose_video *)
(* and what run_pipeline does with its value.                              *)
(***************************************************************************)
\* Python's None as a value of final_video_path.
PyNone == [kind |-> "None", paths |-> <<>>]

\* A test that takes only an empty list for a failed composition.
ComposeFailed_OnlyEmptyList(path) == path.kind = "list" /\ path.paths = <<>>

\* not final_video_path
ComposeFailed(path) ==
    \/ path.kind = "None"
    \/ path.kind = "list" /\ path.paths = <<>>

\* _compose_video: return final_video_path
ComposeVideoReturns ==
    /\ run_pc = "compose"
    /\ pc = "returned"
    /\ final_video_path' = result
    /\ run_pc' = "check_path"
    /\ UNCHANGED <<subVars, textVars, runVars, cleanupVars, PipelineConfig, pc, subtitles_data,
                   video_clip, audio_clip, target_duration, final_video,
                   subtitle_clips, total_duration, num_parts, part_num, parts,
                   output_paths, opened, closed, files, result,
                   subtitle_failures, temp_audiofiles>>

\* _compose_video: except Exception: log, return None
ComposeVideoCatches ==
    /\ run_pc = "compose"
    /\ pc = "raised"
    /\ final_video_path' = PyNone
    /\ run_pc' = "check_path"
    /\ UNCHANGED <<subVars, textVars, runVars, cleanupVars, PipelineConfig, pc, subtitles_data,
                   video_clip, audio_clip, target_duration, final_video,
                   subtitle_clips, total_duration, num_parts, part_num, parts,
                   output_paths, opened, closed, files, result,
                   subtitle_failures, temp_audiofiles>>

\* if not final_video_path: raise Exception("Failed to compose video");
\* the handler of run_pipeline logs and re-raises.
RunPipelineRaises ==
    /\ run_pc = "check_path"
    /\ ComposeFailed(final_video_path)
    /\ run_pc' = "raised"
    /\ UNCHANGED <<subVars, textVars, runVars, cleanupVars, PipelineConfig, pc, subtitles_data,
                   video_clip, audio_clip, target_duration, final_video,
                   subtitle_clips, total_duration, num_parts, part_num, parts,
                   output_paths, opened, closed, files, result,
                   subtitle_failures, temp_audiofiles, final_video_path>>

\* results['final_video_path'] = final_video_path, the cleanup (which
\* catches its own errors), return results
RunPipelineCompletes ==
    /\ run_pc = "check_path"
    /\ ~ComposeFailed(final_video_path)
    /\ results' = [results EXCEPT !.final_video_path = Some(final_video_path)]
    /\ stages' = IF AUTO_CLEANUP_ON_SUCCESS THEN Append(stages, "cleanup")
                 ELSE stages
    /\ run_pc' = "completed"
    /\ UNCHANGED <<subVars, textVars, subtitle_system_status, cleanupVars,
                   PipelineConfig, pc, subtitles_data,
                   video_clip, audio_clip, target_duration, final_video,
                   subtitle_clips, total_duration, num_parts, part_num, parts,
                   output_paths, opened, closed, files, result,
                   subtitle_failures, temp_audiofiles, final_video_path>>

ComposeNext ==
    \/ LoadVideo \/ LoadVideoFails
    \/ LoadAudio \/ LoadAudioFails
    \/ ProcessBackground \/ ProcessBackgroundFails
    \/ RenderSubtitles \/ SkipSubtitles
    \/ GenerateOutputPath \/ GenerateOutputPathFails
    \/ ExportSingle \/ ExportSingleFails
    \/ ExportPart \/ ExportPartFails
    \/ SplitReturn
    \/ ComposeVideoReturns \/ ComposeVideoCatches
    \/ RunPipelineRaises \/ RunPipelineCompletes

Init == ComposeInit
Next == ComposeNext
Spec == Init /\ [][Next]_vars

(***************************************************************************)
(* ShortFormVideoPipeline: __init__ and run_pipeline, one action per stage. *)
(***************************************************************************)
\* What compose_video works on besides its arguments and the configuration.
composerLocals == <<video_clip, audio_clip, target_duration, final_video,
                    subtitle_clips, total_duration, num_parts, part_num, parts,
                    output_paths, opened, closed, files, result,
                    subtitle_failures, temp_audiofiles>>

RunInit ==
    /\ PipelineConfig \in ConfigChoices
    /\ subtitles_data = <<>>
    /\ pc = "idle"
    /\ video_clip = NoClip
    /\ audio_clip = NoClip
    /\ target_duration = 0
    /\ final_video = NoClip
    /\ subtitle_clips = <<>>
    /\ total_duration = 0
    /\ num_parts = 0
    /\ part_num = 0
    /\ parts = <<>>
    /\ output_paths = <<>>
    /\ opened = {}
    /\ closed = {}
    /\ files = {}
    /\ result = NoResult
    /\ subtitle_failures = NoFailures
    /\ temp_audiofiles = <<>>
    /\ run_pc = "construct"
    /\ final_video_path = NoResult
    /\ RunIdle
    /\ SubIdle
    /\ TextIdle
    /\ CleanupIdle

\* __init__: the subtitle system is checked when subtitles are enabled; a
\* check that reports text overlays not working is logged and printed, and
\* the configuration is left as it is.
Construct ==
    /\ run_pc = "construct"
    /\ IF PipelineConfig.GENERATE_SUBTITLES
       THEN \E textclip_working \in BOOLEAN :
                subtitle_system_status' =
                    Some([textclip_working |-> textclip_working])
       ELSE subtitle_system_status' = None
    /\ run_pc' = "fetch"
    /\ UNCHANGED <<subVars, textVars, cleanupVars, PipelineConfig, pc,
                   subtitles_data, composerLocals, final_video_path, stages,
                   results>>

\* What a stage helper hands back: None after a failure it caught, or its
\* result.
StageValues == {"None", "value"}

\* A test that takes every value for a result.
StageFailed_Never(value) == FALSE

\* if not reddit_post / not audio_path / not background_video
StageFailed(value) == value = "None"

\* Step 1: fetch the Reddit post.
FetchPost ==
    /\ run_pc = "fetch"
    /\ stages' = Append(stages, "fetch")
    /\ \E reddit_post \in StageValues :
          IF StageFailed(reddit_post)
          THEN /\ run_pc' = "raised"
               /\ UNCHANGED results
          ELSE /\ results' = [results EXCEPT !.reddit_post = Some(reddit_post)]
               /\ run_pc' = "narration"
    /\ UNCHANGED <<subVars, textVars, cleanupVars, PipelineConfig, pc,
                   subtitles_data, composerLocals, final_video_path,
                   subtitle_system_status>>

\* Step 2: generate the narration script and audio.
GenerateNarration ==
    /\ run_pc = "narration"
    /\ stages' = Append(stages, "narration")
    /\ \E audio_path \in StageValues :
          IF StageFailed(audio_path)
          THEN /\ run_pc' = "raised"
               /\ UNCHANGED results
          ELSE /\ results' = [results EXCEPT !.audio_path = Some(audio_path)]
               /\ run_pc' = "background"
    /\ UNCHANGED <<subVars, textVars, cleanupVars, PipelineConfig, pc,
                   subtitles_data, composerLocals, final_video_path,
                   subtitle_system_status>>

\* Step 3: get the background video.
GetBackgroundVideo ==
    /\ run_pc = "background"
    /\ stages' = Append(stages, "background")
    /\ \E background_video \in StageValues :
          IF StageFailed(background_video)
          THEN /\ run_pc' = "raised"
               /\ UNCHANGED results
          ELSE /\ results' = [results EXCEPT
                                 !.background_video = Some(background_video)]
               /\ run_pc' = "subtitles"
    /\ UNCHANGED <<subVars, textVars, cleanupVars, PipelineConfig, pc,
                   subtitles_data, composerLocals, final_video_path,
                   subtitle_system_status>>

\* Step 4 with GENERATE_SUBTITLES: _generate_subtitles returns the
\* subtitles, or [] after a failure it caught.
GenerateSubtitles ==
    /\ run_pc = "subtitles"
    /\ PipelineConfig.GENERATE_SUBTITLES
    /\ stages' = Append(stages, "subtitles")
    /\ \E subtitles \in SubtitleLists :
          /\ subtitles_data' = subtitles
          /\ results' = [results EXCEPT !.subtitles = Some(subtitles)]
    /\ run_pc' = "call_compose"
    /\ UNCHANGED <<subVars, textVars, cleanupVars, PipelineConfig, pc,
                   composerLocals, final_video_path, subtitle_system_status>>

\* Step 4 without GENERATE_SUBTITLES: subtitles = [] and the step is skipped.
SkipSubtitleStep ==
    /\ run_pc = "subtitles"
    /\ ~PipelineConfig.GENERATE_SUBTITLES
    /\ run_pc' = "call_compose"
    /\ UNCHANGED <<subVars, textVars, cleanupVars, PipelineConfig, pc,
                   subtitles_data, composerLocals, final_video_path, runVars>>

\* Step 5: _compose_video calls compose_video with the subtitles.
CallComposeVideo ==
    /\ run_pc = "call_compose"
    /\ stages' = Append(stages, "compose")
    /\ pc' = "load_video"
    /\ run_pc' = "compose"
    /\ UNCHANGED <<subVars, textVars, cleanupVars, PipelineConfig,
                   subtitles_data, composerLocals, final_video_path,
                   subtitle_system_status, results>>

RunNext ==
    \/ Construct
    \/ FetchPost \/ GenerateNarration \/ GetBackgroundVideo
    \/ GenerateSubtitles \/ SkipSubtitleStep
    \/ CallComposeVideo
    \/ ComposeNext

SpecRun == RunInit /\ [][RunNext]_vars

(***************************************************************************)
(* Claims about compose_video and the part splitter.                       *)
(***************************************************************************)
\* The loop of _split_and_export_video has run to its end.
SplitFinished ==
    \/ pc = "split" /\ part_num >= num_parts
    \/ pc = "returned" /\ result.kind = "list"

\* C1: for total_duration > max_duration > 0 the splitter computes exactly
\* ceil(total_duration / max_duration) windows
\* [i * max_duration, min((i + 1) * max_duration, total_duration)]; they are
\* contiguous and do not overlap, the first starts at 0, the last ends at
\* total_duration and none spans more than max_duration.
C1_PartWindows ==
    LET max_duration == PipelineConfig.MAX_VIDEO_DURATION
        n == Len(parts)
    IN  (SplitFinished /\ total_duration > max_duration /\ max_duration > 0) =>
            /\ n = Ceil(total_duration, max_duration)
            /\ \A i \in 1..n :
                  /\ parts[i][1] = (i - 1) * max_duration
                  /\ parts[i][2] = Min(i * max_duration, total_duration)
                  /\ parts[i][1] <= parts[i][2]
                  /\ parts[i][2] - parts[i][1] <= max_duration
            /\ \A i \in 1..(n - 1) : parts[i][2] = parts[i + 1][1]
            /\ parts[1][1] = 0
            /\ parts[n][2] = total_duration

\* A finished split whose last part is shorter than the others (5 ticks cut by 2).
C1_Witness ==
    /\ SplitFinished
    /\ total_duration > PipelineConfig.MAX_VIDEO_DURATION
    /\ total_duration % PipelineConfig.MAX_VIDEO_DURATION > 0
    /\ Len(parts) >= 3

\* C2: on every exit path of compose_video, by return or by exception, every
\* media handle opened during the call has been closed.
C2_HandlesReleased ==
    pc \in {"returned", "raised"} => opened \subseteq closed

SubtitlesRendered ==
    /\ pc \in {"output_path", "single", "split", "returned"}
    /\ subtitles_data # <<>>
    /\ PipelineConfig.GENERATE_SUBTITLES
    /\ PipelineConfig.RENDER_SUBTITLES

\* The steps of compose_video whose failure is fatal: load, fit, export.
FatalStages ==
    {"load_video", "load_audio", "process_background", "output_path",
     "single", "split"}

C15_FatalNeverSuccess ==
    /\ pc = "raised" =>
           /\ result.kind = "raised"
           /\ result.paths = <<>>
           /\ run_pc \in {"compose", "check_path", "raised"}
           /\ run_pc # "compose" => final_video_path = PyNone
    /\ run_pc = "completed" =>
           /\ pc = "returned"
           /\ final_video_path = result
           /\ result.paths # <<>>

\* A run whose composition failed while exporting a part, and which raised.
C15_Witness ==
    /\ pc = "raised"
    /\ result.stage = "split"
    /\ run_pc = "raised"

\* C16: when the export of a part fails after earlier parts were written,
\* compose_video returns no paths and no part file of the composition
\* remains in the final-videos directory.
C16_NoPartLeft ==
    (pc = "raised" /\ result.stage = "split") =>
        /\ result.paths = <<>>
        /\ ~\E f \in files : f[1] = "part"

PartDuration(window) == window[2] - window[1]

\* C23: in a split export every part except the last has duration exactly
\* max_duration, and the last part has duration greater than 0 and at most
\* max_duration; no computed part is empty.
C23_PartDurations ==
    LET max_duration == PipelineConfig.MAX_VIDEO_DURATION
    IN  (pc = "split" \/ SplitFinished) =>
            \A i \in 1..Len(parts) :
                /\ PartDuration(parts[i]) > 0
                /\ PartDuration(parts[i]) <= max_duration
                /\ i < num_parts => PartDuration(parts[i]) = max_duration

\* A returned split of two parts, the second shorter than the first.
C23_Witness ==
    /\ pc = "returned"
    /\ result.kind = "list"
    /\ Len(parts) = 2
    /\ PartDuration(parts[1]) = PipelineConfig.MAX_VIDEO_DURATION
    /\ PartDuration(parts[2]) < PartDuration(parts[1])
    /\ PartDuration(parts[2]) > 0

\* The clips compose_video exported: the composite for a single file, the
\* sub-clips for a split.
ExportedDurations ==
    IF result.kind = "list"
    THEN {PartDuration(parts[i]) : i \in 1..Len(parts)}
    ELSE {final_video.duration}

\* C26: with splitting enabled, every artifact exported by compose_video
\* (the single file or each part) has duration <= MAX_VIDEO_DURATION,
\* including when a rendered subtitle overlay ends later than the
\* narration audio.
C26_ExportsWithinMax ==
    (pc = "returned" /\ PipelineConfig.SPLIT_LONG_VIDEOS) =>
        \A d \in ExportedDurations : d <= PipelineConfig.MAX_VIDEO_DURATION

Distinct(q) == \A i, j \in 1..Len(q) : i # j => q[i] # q[j]

\* C20: within one split export the temporary audio name and the output
\* name of a part differ from those of every other part, and the returned
\* list holds <base>_part1.mp4 ... <base>_partK.mp4 in increasing part
\* order, one per computed part window.
C20_PartNamesUnique ==
    /\ pc = "split" =>
           /\ Distinct(temp_audiofiles)
           /\ Distinct(output_paths)
           /\ Len(temp_audiofiles) = Len(parts)
    /\ (pc = "returned" /\ result.kind = "list") =>
           /\ Distinct(temp_audiofiles)
           /\ Distinct(result.paths)
           /\ Len(result.paths) = Len(parts)
           /\ Len(temp_audiofiles) = Len(parts)
           /\ \A i \in 1..Len(result.paths) : result.paths[i] = <<"part", i>>

\* A returned split of three parts.
C20_Witness ==
    /\ pc = "returned"
    /\ result.kind = "list"
    /\ Len(result.paths) = 3
    /\ Len(temp_audiofiles) = 3

(***************************************************************************)
(* _add_subtitles on its own: compose_video stands before the subtitle     *)
(* step with a fitted clip and any list of up to MaxRenderSubtitles        *)
(* subtitles.                                                              *)
(***************************************************************************)
RenderInit ==
    /\ PipelineConfig \in ConfigChoices
    /\ subtitles_data \in SeqsUpTo(Subtitle, MaxRenderSubtitles)
    /\ pc = "subtitles"
    /\ \E size \in SourceSizes : video_clip = [size |-> size, duration |-> 1]
    /\ target_duration \in 1..MaxAudioDuration
    /\ audio_clip = [size |-> <<0, 0>>, duration |-> target_duration]
    /\ final_video =
           LET processed == ProcessBackgroundVideo(video_clip, target_duration, 0)
           IN  [size |-> processed.size, duration |-> processed.duration,
                fit |-> processed.fit, crop |-> processed.crop,
                overlays |-> <<>>]
    /\ subtitle_clips = <<>>
    /\ total_duration = 0
    /\ num_parts = 0
    /\ part_num = 0
    /\ parts = <<>>
    /\ output_paths = <<>>
    /\ opened = {VideoHandle, AudioHandle, FinalHandle}
    /\ closed = {}
    /\ files = {}
    /\ result = NoResult
    /\ subtitle_failures = NoFailures
    /\ temp_audiofiles = <<>>
    /\ run_pc = "compose"
    /\ final_video_path = NoResult
    /\ RunAtCompose
    /\ SubIdle
    /\ TextIdle
    /\ CleanupIdle

RenderNext == RenderSubtitles \/ SkipSubtitles

SpecRender == RenderInit /\ [][RenderNext]_vars

\* The k-th smallest element of a set of numbers.
KthOf(S, k) == CHOOSE i \in S : Cardinality({j \in S : j < i}) = k - 1

\* C13: when the overlay of an individual subtitle cannot be built, only
\* that subtitle is skipped: the composed video carries the overlays of
\* exactly the other supplied subtitles, in the order supplied, each with
\* its own start and end (the compositing itself having succeeded).
C13_OnlyFailedSkipped ==
    (SubtitlesRendered /\ ~subtitle_failures.composite) =>
        LET kept == (1..Len(subtitles_data)) \ subtitle_failures.failed
        IN  /\ Len(final_video.overlays) = Cardinality(kept)
            /\ \A k \in 1..Len(final_video.overlays) :
                  /\ final_video.overlays[k].start = subtitles_data[KthOf(kept, k)].start
                  /\ final_video.overlays[k].end = subtitles_data[KthOf(kept, k)].end

\* Two different subtitles supplied, the first failed, the second carried.
C13_Witness ==
    /\ SubtitlesRendered
    /\ ~subtitle_failures.composite
    /\ Len(subtitles_data) = 2
    /\ subtitles_data[1] # subtitles_data[2]
    /\ subtitle_failures.failed = {1}
    /\ final_video.overlays = <<subtitles_data[2]>>

(***************************************************************************)
(* The background fitter on its own: compose_video stands before           *)
(* _process_background_video with any source of 1..MaxSourceDim pixels a   *)
(* side and any pair of durations.                                         *)
(***************************************************************************)
FitSources ==
    ((1..MaxSourceDim) \X (1..MaxSourceDim))
        \cup SourceSizes \cup {<<720, 1280>>, <<1080, 1920>>, <<1081, 1920>>}

FitInit ==
    /\ PipelineConfig = DefaultConfig
    /\ subtitles_data = <<>>
    /\ pc = "process_background"
    /\ video_clip \in [size : FitSources, duration : 1..MaxFitDuration]
    /\ target_duration \in 1..MaxFitDuration
    /\ audio_clip = [size |-> <<0, 0>>, duration |-> target_duration]
    /\ final_video = NoClip
    /\ subtitle_clips = <<>>
    /\ total_duration = 0
    /\ num_parts = 0
    /\ part_num = 0
    /\ parts = <<>>
    /\ output_paths = <<>>
    /\ opened = {VideoHandle, AudioHandle}
    /\ closed = {}
    /\ files = {}
    /\ result = NoResult
    /\ subtitle_failures = NoFailures
    /\ temp_audiofiles = <<>>
    /\ run_pc = "idle"
    /\ final_video_path = NoResult
    /\ RunIdle
    /\ SubIdle
    /\ TextIdle
    /\ CleanupIdle

FitNext == ProcessBackground \/ ProcessBackgroundFails

SpecFit == FitInit /\ [][FitNext]_vars

\* _process_background_video has returned its clip.
Fitted == pc = "subtitles"

\* C6 (as claimed): a source shorter than the target is looped the least
\* whole number of times n with n * source_duration >= target_duration.
C6_MinimalLoops ==
    (Fitted /\ final_video.fit.looped) =>
        final_video.fit.loops = Ceil(target_duration, video_clip.duration)

\* C6 (amended): a source shorter than the target is looped
\* floor(target / source) + 1 times, the least whole number n with
\* n * source_duration > target_duration, before the trim to the target.
C6_LoopsExceedTarget ==
    (Fitted /\ final_video.fit.looped) =>
        LET n == final_video.fit.loops
        IN  /\ n = (target_duration \div video_clip.duration) + 1
            /\ n * video_clip.duration > target_duration
            /\ (n - 1) * video_clip.duration <= target_duration
            /\ final_video.fit.raw_duration = n * video_clip.duration
            /\ final_video.fit.t_end = target_duration

\* A looped source that divides the target: one loop more than needed.
C6_Witness ==
    /\ Fitted
    /\ final_video.fit.looped
    /\ target_duration % video_clip.duration = 0
    /\ (final_video.fit.loops - 1) * video_clip.duration = target_duration

\* C7: for any positive source width and height the scale-then-crop yields a
\* frame of exactly OUTPUT_WIDTH x OUTPUT_HEIGHT.
C7_FrameExact ==
    Fitted => final_video.size = <<OUTPUT_WIDTH, OUTPUT_HEIGHT>>

\* A wider source whose scaled width is odd and is cropped, fitted exactly.
C7_Witness ==
    /\ Fitted
    /\ IsWider(video_clip.size[1], video_clip.size[2])
    /\ ScaledSize(video_clip.size[1], video_clip.size[2])[1] % 2 = 1
    /\ ScaledSize(video_clip.size[1], video_clip.size[2])[1] > OUTPUT_WIDTH
    /\ final_video.size = <<OUTPUT_WIDTH, OUTPUT_HEIGHT>>

\* C8: for positive source and target durations the returned clip lasts
\* exactly the target duration, whether the source was looped and trimmed
\* from time 0 or windowed.
C8_DurationExact ==
    Fitted =>
        /\ final_video.duration = target_duration
        /\ final_video.fit.looped <=> video_clip.duration < target_duration
        /\ final_video.fit.looped =>
              /\ final_video.fit.t_start = 0
              /\ final_video.fit.raw_duration >= target_duration

\* A longer source windowed at a start later than 0.
C8_Witness ==
    /\ Fitted
    /\ ~final_video.fit.looped
    /\ final_video.fit.t_start > 0
    /\ final_video.duration = target_duration

\* C18: when the source is at least as long as the target, the start the
\* fitter chooses lies in [0, source_duration - target_duration], and the
\* window [start, start + target_duration] is one range inside
\* [0, source_duration].
C18_WindowInsideSource ==
    (Fitted /\ video_clip.duration >= target_duration) =>
        /\ ~final_video.fit.looped
        /\ 0 <= final_video.fit.t_start
        /\ final_video.fit.t_start <= video_clip.duration - target_duration
        /\ final_video.fit.t_end = final_video.fit.t_start + target_duration
        /\ final_video.fit.t_end <= video_clip.duration
        /\ final_video.fit.inside

\* C22: the centre-crop window is never off-canvas and is symmetric: its
\* start is >= 0, its start plus the target dimension is <= the scaled
\* dimension, and the margins cut off on the two sides differ by at most
\* one pixel.
C22_CropCentred ==
    (Fitted /\ final_video.crop.axis # "none") =>
        LET crop == final_video.crop
            before == crop.start
            after == crop.scaled - (crop.start + crop.length)
        IN  /\ crop.length = IF crop.axis = "x" THEN OUTPUT_WIDTH ELSE OUTPUT_HEIGHT
            /\ before >= 0
            /\ crop.start + crop.length <= crop.scaled
            /\ before - after <= 1
            /\ after - before <= 1

\* A crop of an odd surplus: one side loses a pixel more than the other.
C22_Witness ==
    /\ Fitted
    /\ final_video.crop.axis = "y"
    /\ final_video.crop.start > 0
    /\ final_video.crop.scaled - final_video.crop.length
           = 2 * final_video.crop.start + 1

\* The latest window: it ends where the source ends.
C18_Witness ==
    /\ Fitted
    /\ video_clip.duration > target_duration
    /\ final_video.fit.t_start = video_clip.duration - target_duration
    /\ final_video.fit.t_end = video_clip.duration

(***************************************************************************)
(* Text, as sequences of one-character strings.                            *)
(***************************************************************************)
IsSpace(c) == c = " "

\* str.strip(), str.rstrip()
RECURSIVE LStrip(_)
LStrip(t) == IF t # <<>> /\ IsSpace(Head(t)) THEN LStrip(Tail(t)) ELSE t

RECURSIVE RStrip(_)
RStrip(t) ==
    IF t # <<>> /\ IsSpace(t[Len(t)]) THEN RStrip(SubSeq(t, 1, Len(t) - 1)) ELSE t

Strip(t) == RStrip(LStrip(t))

\* str.split(): the maximal runs of non-space characters.
RECURSIVE SplitFrom(_, _)
SplitFrom(t, word) ==
    IF t = <<>>
    THEN IF word = <<>> THEN <<>> ELSE <<word>>
    ELSE IF IsSpace(Head(t))
         THEN (IF word = <<>> THEN <<>> ELSE <<word>>) \o SplitFrom(Tail(t), <<>>)
         ELSE SplitFrom(Tail(t), Append(word, Head(t)))

Split(t) == SplitFrom(t, <<>>)

\* ' '.join(words)
RECURSIVE Join(_)
Join(words) ==
    IF words = <<>> THEN <<>>
    ELSE IF Len(words) = 1 THEN words[1]
         ELSE words[1] \o <<" ">> \o Join(Tail(words))

\* str.upper() on one character
Upper(c) == CASE c = "a" -> "A" [] c = "b" -> "B" [] OTHER -> c

\* text.replace(' ' + p, p): left to right, without overlaps.
RECURSIVE ReplaceSpaceBefore(_, _)
ReplaceSpaceBefore(t, p) ==
    IF t = <<>> THEN <<>>
    ELSE IF Len(t) >= 2 /\ t[1] = " " /\ t[2] = p
         THEN <<p>> \o ReplaceSpaceBefore(SubSeq(t, 3, Len(t)), p)
         ELSE <<t[1]>> \o ReplaceSpaceBefore(Tail(t), p)

\* A cleaner that capitalizes before it collapses the whitespace.
CleanSubtitleText_CapitalizeFirst(text) ==
    LET capitalized == IF text # <<>>
                       THEN <<Upper(text[1])>> \o Tail(text)
                       ELSE text
        collapsed == Join(Split(capitalized))
    IN  ReplaceSpaceBefore(
            ReplaceSpaceBefore(
                ReplaceSpaceBefore(
                    ReplaceSpaceBefore(collapsed, ","), "."), "!"), "?")

\* A cleaner that leaves the whitespace as it is.
CleanSubtitleText_NoCollapse(text) ==
    LET capitalized == IF text # <<>>
                       THEN <<Upper(text[1])>> \o Tail(text)
                       ELSE text
    IN  ReplaceSpaceBefore(
            ReplaceSpaceBefore(
                ReplaceSpaceBefore(
                    ReplaceSpaceBefore(capitalized, ","), "."), "!"), "?")

\* WhisperSubtitles._clean_subtitle_text
CleanSubtitleText(text) ==
    LET collapsed == Join(Split(text))
        capitalized == IF collapsed # <<>>
                       THEN <<Upper(collapsed[1])>> \o Tail(collapsed)
                       ELSE collapsed
    IN  ReplaceSpaceBefore(
            ReplaceSpaceBefore(
                ReplaceSpaceBefore(
                    ReplaceSpaceBefore(capitalized, ","), "."), "!"), "?")

\* The characters of the texts given to _clean_subtitle_text on its own: a
\* space, a lowercase and an uppercase letter, a digit, the four marks.
TextChars == {" ", "a", "A", "1", ",", ".", "!", "?"}

CleanInit ==
    /\ ComposeIdle
    /\ SubIdle
    /\ CleanupIdle
    /\ raw_text \in SeqsUpTo(TextChars, MaxTextLen)
    /\ cleaned_text = None
    /\ recleaned_text = None

\* return text
CleanText ==
    /\ cleaned_text = None
    /\ cleaned_text' = Some(CleanSubtitleText(raw_text))
    /\ UNCHANGED <<composeVars, subVars, runVars, cleanupVars, raw_text, recleaned_text>>

\* _clean_subtitle_text called on the text it returned
CleanAgain ==
    /\ cleaned_text # None
    /\ recleaned_text = None
    /\ recleaned_text' = Some(CleanSubtitleText(cleaned_text[1]))
    /\ UNCHANGED <<composeVars, subVars, runVars, cleanupVars, raw_text, cleaned_text>>

CleanNext == CleanText \/ CleanAgain

SpecClean == CleanInit /\ [][CleanNext]_vars

\* str.isupper() and str.isalpha() on one character
IsUpperChar(c) == c \in {"A", "B"}
IsLetter(c) == c \in {"a", "b", "A", "B"}

\* No space stands immediately before one of , . ! ?
NoSpaceBeforeMark(t) ==
    \A i \in 1..(Len(t) - 1) : ~(t[i] = " " /\ t[i + 1] \in {",", ".", "!", "?"})

\* C17 (as claimed): the cleaned text has no space immediately before
\* , . ! ? and, when non-empty, begins with an uppercase character.
C17_BeginsUppercase ==
    cleaned_text # None =>
        LET t == cleaned_text[1]
        IN  /\ NoSpaceBeforeMark(t)
            /\ t # <<>> => IsUpperChar(t[1])

\* C17 (amended): the cleaned text has no space immediately before
\* , . ! ? and, when non-empty, begins with the upper-case form of the first
\* non-blank character of the input: an uppercase character when that
\* character is a letter, the character itself when it is a digit or a mark.
C17_BeginsUppercased ==
    cleaned_text # None =>
        LET t == cleaned_text[1]
            first == LStrip(raw_text)
        IN  /\ NoSpaceBeforeMark(t)
            /\ t # <<>> =>
                  /\ first # <<>>
                  /\ IsLetter(first[1]) => IsUpperChar(t[1])
                  /\ ~IsLetter(first[1]) => t[1] = first[1]

\* A text that begins with a digit, cleaned of a space before a mark.
C17_Witness ==
    /\ cleaned_text # None
    /\ raw_text = <<"1", " ", ".">>
    /\ cleaned_text[1] = <<"1", ".">>

\* C30: _clean_subtitle_text is idempotent: for every input text, cleaning
\* an already cleaned text returns it unchanged.
C30_CleanIdempotent ==
    recleaned_text # None => recleaned_text = cleaned_text

\* A text the first cleaning changed in all three ways (whitespace, capital,
\* space before a mark) and the second left alone.
C30_Witness ==
    /\ raw_text = <<" ", "a", " ", ".">>
    /\ cleaned_text = Some(<<"A", ".">>)
    /\ recleaned_text = Some(<<"A", ".">>)

\* WhisperSubtitles._is_sentence_end
IsSentenceEnd(word) ==
    LET w == RStrip(word)
    IN  w # <<>> /\ w[Len(w)] \in {".", "!", "?"}

(***************************************************************************)
(* WhisperSubtitles._create_subtitle_segments                              *)
(***************************************************************************)
\* Raw word tokens as Whisper gives them: a blank token, a word with its
\* leading space, a word that ends a sentence.
WordTexts == {<<" ">>, <<" ", "a">>, <<" ", "b", ".">>}

TimeSpans == {t \in (0..MaxTime) \X (0..MaxTime) : t[1] <= t[2]}

WordInfos ==
    {[word |-> w, start |-> t[1], end |-> t[2]] : w \in WordTexts, t \in TimeSpans}

\* Texts of transcription segments that carry no word timings.
FallbackTexts == {<<" ">>, <<" ", "a", " ", "b", ".">>}

FallbackSegments ==
    {[text |-> x, start |-> t[1], end |-> t[2], words |-> <<>>] :
        x \in FallbackTexts, t \in TimeSpans}

\* A transcription segment with word timings, as Whisper builds it: its text
\* is the concatenation of its word tokens, its span runs from its first
\* word's start to its last word's end.
WithWord(seg, word_info) ==
    [text |-> seg.text \o word_info.word,
     start |-> IF seg.words = <<>> THEN word_info.start ELSE seg.start,
     end |-> word_info.end,
     words |-> Append(seg.words, word_info)]

EmptyWordSegment == [text |-> <<>>, start |-> 0, end |-> 0, words |-> <<>>]

\* Input that is not of the shape Whisper gives: a segment, and a word,
\* whose text is None instead of a string.
MalformedSegment ==
    [text |-> <<>>, start |-> 0, end |-> 0, words |-> <<>>, malformed |-> TRUE]

MalformedWord == [word |-> <<>>, start |-> 0, end |-> 0, malformed |-> TRUE]

\* The size of a Whisper result: its words, and one for each segment
\* without words.
RECURSIVE TotalItems(_)
TotalItems(segments) ==
    IF segments = <<>> THEN 0
    ELSE Max(Len(segments[1].words), 1) + TotalItems(Tail(segments))

\* The state of the loops: the returned list, the buffer and its start, and
\* as history the word records behind the buffer and behind each segment.
TimerState(segs, buffer, start, buffered, groups) ==
    [subtitle_segments |-> segs, current_segment |-> buffer,
     current_start |-> start, buffered_words |-> buffered,
     segment_words |-> groups]

SubtitleSegment(text, start, end) ==
    [text |-> text, start |-> start, end |-> end, duration |-> end - start]

\* A fallback that emits a subtitle for a blank text as well.
FallbackStep_KeepBlank(st, segment) ==
    [st EXCEPT
        !.subtitle_segments =
            Append(@, SubtitleSegment(CleanSubtitleText(Strip(segment.text)),
                                      segment.start, segment.end)),
        !.segment_words = Append(@, <<>>)]

\* Lines 92-101: a segment without words gives one subtitle, unless its
\* text is empty after strip().
FallbackStep(st, segment) ==
    LET text == Strip(segment.text)
    IN  IF text # <<>>
        THEN [st EXCEPT
                 !.subtitle_segments =
                     Append(@, SubtitleSegment(CleanSubtitleText(text),
                                               segment.start, segment.end)),
                 !.segment_words = Append(@, <<>>)]
        ELSE st

\* Lines 104-105: current_segment = [], current_start = None
BeginWordsStep(st) ==
    [st EXCEPT !.current_segment = <<>>, !.current_start = None,
               !.buffered_words = <<>>]

\* A word step that stamps the closed segment with the closing word's end as
\* its start.
WordStep_StartFromEnd(st, word_info, max_words) ==
    LET word == Strip(word_info.word)
    IN  IF word = <<>> THEN st
        ELSE [st EXCEPT
                 !.subtitle_segments =
                     Append(@, SubtitleSegment(CleanSubtitleText(word),
                                               word_info.end, word_info.end)),
                 !.segment_words = Append(@, <<word_info>>)]

\* A word step whose duration test is not strict.
WordStep_DurationNotStrict(st, word_info, max_words) ==
    LET word == Strip(word_info.word)
        start == IF st.current_start = None
                 THEN word_info.start ELSE st.current_start[1]
        buffer == Append(st.current_segment, word)
        buffered == Append(st.buffered_words, word_info)
    IN  IF word = <<>> THEN st
        ELSE IF \/ Len(buffer) >= max_words
                \/ IsSentenceEnd(word)
                \/ (word_info.end - start) >= MAX_SUBTITLE_DURATION
             THEN [subtitle_segments |->
                       Append(st.subtitle_segments,
                              SubtitleSegment(CleanSubtitleText(Join(buffer)),
                                              start, word_info.end)),
                   current_segment |-> <<>>,
                   current_start |-> None,
                   buffered_words |-> <<>>,
                   segment_words |-> Append(st.segment_words, buffered)]
             ELSE [st EXCEPT !.current_segment = buffer,
                             !.current_start = Some(start),
                             !.buffered_words = buffered]

\* Lines 107-142: one iteration of "for word_info in words".
WordStep(st, word_info, max_words) ==
    LET word == Strip(word_info.word)
        start_time == word_info.start
        end_time == word_info.end
    IN  IF word = <<>> THEN st
        ELSE LET start == IF st.current_start = None
                          THEN start_time ELSE st.current_start[1]
                 buffer == Append(st.current_segment, word)
                 buffered == Append(st.buffered_words, word_info)
                 should_end_segment ==
                     \/ Len(buffer) >= max_words
                     \/ IsSentenceEnd(word)
                     \/ (end_time - start) > MAX_SUBTITLE_DURATION
             IN  IF should_end_segment
                 THEN [subtitle_segments |->
                           Append(st.subtitle_segments,
                                  SubtitleSegment(CleanSubtitleText(Join(buffer)),
                                                  start, end_time)),
                       current_segment |-> <<>>,
                       current_start |-> None,
                       buffered_words |-> <<>>,
                       segment_words |-> Append(st.segment_words, buffered)]
                 ELSE [st EXCEPT !.current_segment = buffer,
                                 !.current_start = Some(start),
                                 !.buffered_words = buffered]

\* A function that forgets the words left in the buffer.
FlushStep_Skip(st, words) == st

\* A flush that always takes the default end, current_start + 2.0.
FlushStep_DefaultEnd(st, words) ==
    IF st.current_segment # <<>> /\ st.current_start # None
    THEN [st EXCEPT
             !.subtitle_segments =
                 Append(@, SubtitleSegment(
                               CleanSubtitleText(Join(st.current_segment)),
                               st.current_start[1], st.current_start[1] + 2)),
             !.segment_words = Append(@, st.buffered_words)]
    ELSE st

\* Lines 144-157: the words left in the buffer, ended at words[-1]'s end.
FlushStep(st, words) ==
    IF st.current_segment # <<>> /\ st.current_start # None
    THEN LET last_end == words[Len(words)].end
         IN  [st EXCEPT
                 !.subtitle_segments =
                     Append(@, SubtitleSegment(
                                   CleanSubtitleText(Join(st.current_segment)),
                                   st.current_start[1], last_end)),
                 !.segment_words = Append(@, st.buffered_words)]
    ELSE st

\* The whole function, as the composition of the steps above.
RECURSIVE WordsLoop(_, _, _)
WordsLoop(st, words, max_words) ==
    IF words = <<>> THEN st
    ELSE WordsLoop(WordStep(st, Head(words), max_words), Tail(words), max_words)

SegmentStep(st, segment, max_words) ==
    IF segment.words = <<>>
    THEN FallbackStep(st, segment)
    ELSE FlushStep(WordsLoop(BeginWordsStep(st), segment.words, max_words),
                   segment.words)

RECURSIVE SegmentsLoop(_, _, _)
SegmentsLoop(st, segments, max_words) ==
    IF segments = <<>> THEN st
    ELSE SegmentsLoop(SegmentStep(st, Head(segments), max_words),
                      Tail(segments), max_words)

CreateSubtitleSegments(segments, max_words) ==
    SegmentsLoop(TimerState(<<>>, <<>>, None, <<>>, <<>>), segments,
                 max_words).subtitle_segments

\* The loop state held in the variables, and the variables set from one.
Timer ==
    TimerState(subtitle_segments, current_segment, current_start,
               buffered_words, segment_words)

SetTimer(st) ==
    /\ subtitle_segments' = st.subtitle_segments
    /\ current_segment' = st.current_segment
    /\ current_start' = st.current_start
    /\ buffered_words' = st.buffered_words
    /\ segment_words' = st.segment_words

SubInit ==
    /\ ComposeIdle
    /\ TextIdle
    /\ CleanupIdle
    /\ sub_result = None
    /\ whisper_result = <<>>
    /\ max_words_per_segment \in 1..MaxWordCap
    /\ sub_pc = "next_segment"
    /\ subtitle_segments = <<>>
    /\ current_segment = <<>>
    /\ current_start = None
    /\ buffered_words = <<>>
    /\ segment_words = <<>>

\* "for segment in segments" meets a segment without words.
FallbackSegment ==
    /\ sub_pc = "next_segment"
    /\ TotalItems(whisper_result) < MaxItems
    /\ \E segment \in FallbackSegments :
          /\ whisper_result' = Append(whisper_result, segment)
          /\ SetTimer(FallbackStep(Timer, segment))
    /\ UNCHANGED <<composeVars, textVars, runVars, cleanupVars, sub_result, max_words_per_segment,
                   sub_pc>>

\* "for segment in segments" meets a segment with words.
BeginWords ==
    /\ sub_pc = "next_segment"
    /\ TotalItems(whisper_result) < MaxItems
    /\ whisper_result' = Append(whisper_result, EmptyWordSegment)
    /\ SetTimer(BeginWordsStep(Timer))
    /\ sub_pc' = "words"
    /\ UNCHANGED <<composeVars, textVars, runVars, cleanupVars, sub_result, max_words_per_segment>>

\* "for word_info in words" reads the next word of the segment.
ProcessWord ==
    /\ sub_pc = "words"
    /\ \/ whisper_result[Len(whisper_result)].words = <<>>
       \/ TotalItems(whisper_result) < MaxItems
    /\ \E word_info \in WordInfos :
          /\ whisper_result' =
                 [whisper_result EXCEPT ![Len(whisper_result)] = WithWord(@, word_info)]
          /\ SetTimer(WordStep(Timer, word_info, max_words_per_segment))
    /\ UNCHANGED <<composeVars, textVars, runVars, cleanupVars, sub_result, max_words_per_segment,
                   sub_pc>>

\* The words of the segment are exhausted.
EndWords ==
    /\ sub_pc = "words"
    /\ whisper_result[Len(whisper_result)].words # <<>>
    /\ SetTimer(FlushStep(Timer, whisper_result[Len(whisper_result)].words))
    /\ sub_pc' = "next_segment"
    /\ UNCHANGED <<composeVars, textVars, runVars, cleanupVars, sub_result, whisper_result,
                   max_words_per_segment>>

\* return subtitle_segments
ReturnSegments ==
    /\ sub_pc = "next_segment"
    /\ sub_pc' = "done"
    /\ sub_result' = Some(subtitle_segments)
    /\ UNCHANGED <<composeVars, textVars, runVars, cleanupVars, whisper_result, max_words_per_segment,
                   subtitle_segments, current_segment, current_start,
                   buffered_words, segment_words>>

\* A handler that hands back what had been built when the error was raised.
CaughtResult_Partial(built) == built

\* except Exception as e: handle_api_error(...); return []
CaughtResult(built) == <<>>

\* "for segment in segments" meets a segment without words whose text is
\* None: segment.get('text', '').strip() raises AttributeError, the handler
\* returns.
SegmentRaises ==
    /\ sub_pc = "next_segment"
    /\ TotalItems(whisper_result) < MaxItems
    /\ whisper_result' = Append(whisper_result, MalformedSegment)
    /\ sub_result' = Some(CaughtResult(subtitle_segments))
    /\ sub_pc' = "caught"
    /\ UNCHANGED <<composeVars, textVars, runVars, cleanupVars, max_words_per_segment,
                   subtitle_segments, current_segment, current_start,
                   buffered_words, segment_words>>

\* "for word_info in words" meets a word whose text is None:
\* word_info.get('word', '').strip() raises AttributeError, the handler
\* returns.
WordRaises ==
    /\ sub_pc = "words"
    /\ \/ whisper_result[Len(whisper_result)].words = <<>>
       \/ TotalItems(whisper_result) < MaxItems
    /\ whisper_result' =
           [whisper_result EXCEPT ![Len(whisper_result)].words =
                                      Append(@, MalformedWord)]
    /\ sub_result' = Some(CaughtResult(subtitle_segments))
    /\ sub_pc' = "caught"
    /\ UNCHANGED <<composeVars, textVars, runVars, cleanupVars, max_words_per_segment,
                   subtitle_segments, current_segment, current_start,
                   buffered_words, segment_words>>

SubNext ==
    \/ FallbackSegment
    \/ BeginWords
    \/ ProcessWord
    \/ EndWords
    \/ ReturnSegments
    \/ SegmentRaises
    \/ WordRaises

SpecSub == SubInit /\ [][SubNext]_vars

(***************************************************************************)
(* Claims about _create_subtitle_segments.                                 *)
(***************************************************************************)
Returned == sub_pc = "done"

\* The input with the words removed whose text is empty after strip().
IsEmptyWord(word_info) == Strip(word_info.word) = <<>>

RECURSIVE WithoutEmptyWords(_)
WithoutEmptyWords(words) ==
    IF words = <<>> THEN <<>>
    ELSE IF IsEmptyWord(Head(words))
         THEN WithoutEmptyWords(Tail(words))
         ELSE <<Head(words)>> \o WithoutEmptyWords(Tail(words))

RemoveEmptyWords(segments) ==
    [i \in 1..Len(segments) |->
        [segments[i] EXCEPT !.words = WithoutEmptyWords(@)]]

\* The start times of the input in listing order: each word's start, and
\* the segment's own start for a segment without words.
RECURSIVE WordStarts(_)
WordStarts(words) ==
    IF words = <<>> THEN <<>> ELSE <<Head(words).start>> \o WordStarts(Tail(words))

RECURSIVE ListedStarts(_)
ListedStarts(segments) ==
    IF segments = <<>> THEN <<>>
    ELSE (IF Head(segments).words = <<>>
          THEN <<Head(segments).start>>
          ELSE WordStarts(Head(segments).words)) \o ListedStarts(Tail(segments))

NonDecreasing(q) == \A i \in 1..(Len(q) - 1) : q[i] <= q[i + 1]

InTimeOrder(segments) == NonDecreasing(ListedStarts(segments))

\* C3: an emitted segment lasts longer than the maximum segment duration
\* only when it consists of a single word whose own span exceeds the
\* maximum; every segment of two or more words lasts at most the maximum.
C3_LongOnlySingleWord ==
    Returned =>
        \A i \in 1..Len(subtitle_segments) :
            (segment_words[i] # <<>>
               /\ subtitle_segments[i].end - subtitle_segments[i].start
                      > MAX_SUBTITLE_DURATION) =>
                /\ Len(segment_words[i]) = 1
                /\ segment_words[i][1].end - segment_words[i][1].start
                       > MAX_SUBTITLE_DURATION

\* C4: every returned segment, from word timings or from the fallback,
\* contains at most max_words_per_segment words.
C4_WordCountBounded ==
    Returned =>
        \A i \in 1..Len(subtitle_segments) :
            Len(Split(subtitle_segments[i].text)) <= max_words_per_segment

\* C5: when the segments and words of the input are listed in non-decreasing
\* time order, each returned segment starts no earlier than the one
\* returned before it.
C5_StartsNonDecreasing ==
    (Returned /\ InTimeOrder(whisper_result)) =>
        \A i \in 1..(Len(subtitle_segments) - 1) :
            subtitle_segments[i].start <= subtitle_segments[i + 1].start

\* An input in time order that gave two segments, the second starting later.
C5_Witness ==
    /\ Returned
    /\ InTimeOrder(whisper_result)
    /\ Len(subtitle_segments) >= 2
    /\ subtitle_segments[1].start < subtitle_segments[2].start

\* C10: the returned segments are those returned for the same input with
\* the empty-text words removed, wherever the empty words stand.
C10_EmptyWordsIgnored ==
    Returned =>
        subtitle_segments =
            CreateSubtitleSegments(RemoveEmptyWords(whisper_result),
                                   max_words_per_segment)

\* C11: every returned subtitle segment has duration > 0, for every input
\* whose word and segment timings satisfy 0 <= start <= end.
C11_DurationPositive ==
    Returned =>
        \A i \in 1..Len(subtitle_segments) : subtitle_segments[i].duration > 0

\* What the claim expects of the word-less transcription segments, in
\* input order: one subtitle each, none for a text empty after trimming.
RECURSIVE ExpectedOfWordless(_)
ExpectedOfWordless(segments) ==
    IF segments = <<>> THEN <<>>
    ELSE LET segment == Head(segments)
         IN  (IF segment.words = <<>> /\ Strip(segment.text) # <<>>
              THEN <<[text |-> CleanSubtitleText(segment.text),
                      start |-> segment.start, end |-> segment.end]>>
              ELSE <<>>) \o ExpectedOfWordless(Tail(segments))

\* The returned subtitles that stem from word-less segments, in order.
RECURSIVE ReturnedOfWordless(_, _)
ReturnedOfWordless(segs, groups) ==
    IF segs = <<>> THEN <<>>
    ELSE (IF Head(groups) = <<>>
          THEN <<[text |-> Head(segs).text, start |-> Head(segs).start,
                  end |-> Head(segs).end]>>
          ELSE <<>>) \o ReturnedOfWordless(Tail(segs), Tail(groups))

\* C19: a transcription segment without word timings yields exactly one
\* subtitle, with the segment's own start and end and its cleaned text, and
\* none at all when its text is empty after trimming.
C19_FallbackOnePerSegment ==
    Returned =>
        ReturnedOfWordless(subtitle_segments, segment_words)
            = ExpectedOfWordless(whisper_result)

\* A blank word-less segment that gave nothing beside one that gave its
\* subtitle.
C19_Witness ==
    /\ Returned
    /\ Len(whisper_result) = 2
    /\ \A i \in 1..2 : whisper_result[i].words = <<>>
    /\ Strip(whisper_result[1].text) = <<>>
    /\ Strip(whisper_result[2].text) # <<>>
    /\ whisper_result[2].start < whisper_result[2].end
    /\ Len(subtitle_segments) = 1
    /\ subtitle_segments[1].start = whisper_result[2].start
    /\ subtitle_segments[1].end = whisper_result[2].end

\* The handler of _create_subtitle_segments has returned.
Caught == sub_pc = "caught"

\* C12: when a structural error is raised while a transcription segment or
\* a word is processed, the function returns the empty list, whatever had
\* been built before.
C12_ErrorGivesEmptyList ==
    Caught => sub_result = Some(<<>>)

\* An error raised after a segment had already been built.
C12_Witness ==
    /\ Caught
    /\ subtitle_segments # <<>>
    /\ sub_result = Some(<<>>)

\* The word the loop has just read: the last word of the input read so far.
LastWordRead(segments) ==
    LET words == segments[Len(segments)].words
    IN  words[Len(words)]

\* C21: after each non-empty word is appended, the buffer is closed exactly
\* when (a) the buffered word count has reached max_words_per_segment, or
\* (b) the word ends in . ! or ?, or (c) the word's end minus the buffer's
\* start is strictly greater than the maximum segment duration; the segment
\* emitted spans from the first buffered word's start to the appended
\* word's end, and the buffer is empty afterwards.
C21_ClosedExactlyWhen ==
    [][(/\ sub_pc = "words"
        /\ sub_pc' = "words"
        /\ whisper_result' # whisper_result
        /\ ~IsEmptyWord(LastWordRead(whisper_result'))) =>
           LET word_info == LastWordRead(whisper_result')
               first == IF buffered_words = <<>> THEN word_info
                        ELSE buffered_words[1]
               closes == \/ Len(buffered_words) + 1 >= max_words_per_segment
                         \/ Strip(word_info.word)[Len(Strip(word_info.word))]
                                \in {".", "!", "?"}
                         \/ word_info.end - first.start > MAX_SUBTITLE_DURATION
               emitted == Len(subtitle_segments') = Len(subtitle_segments) + 1
           IN  /\ emitted <=> closes
               /\ emitted =>
                     /\ subtitle_segments'[Len(subtitle_segments')].start = first.start
                     /\ subtitle_segments'[Len(subtitle_segments')].end = word_info.end
                     /\ SubSeq(subtitle_segments', 1, Len(subtitle_segments))
                            = subtitle_segments
                     /\ current_segment' = <<>>
                     /\ current_start' = None
               /\ ~emitted =>
                     /\ subtitle_segments' = subtitle_segments
                     /\ Len(current_segment') = Len(current_segment) + 1
                     /\ current_start' = Some(first.start)]_vars

\* A buffer emitted by its duration alone: one word, not the end of a
\* sentence, under a cap of two words, spanning more than the maximum.
C21_Witness ==
    /\ sub_pc = "words"
    /\ max_words_per_segment = 2
    /\ Len(subtitle_segments) = 1
    /\ Len(segment_words[1]) = 1
    /\ ~IsSentenceEnd(segment_words[1][1].word)
    /\ segment_words[1][1].end - segment_words[1][1].start > MAX_SUBTITLE_DURATION
    /\ current_segment = <<>>

\* The word records of the input, in input order.
RECURSIVE AllWords(_)
AllWords(segments) ==
    IF segments = <<>> THEN <<>>
    ELSE Head(segments).words \o AllWords(Tail(segments))

RECURSIVE Flatten(_)
Flatten(groups) ==
    IF groups = <<>> THEN <<>> ELSE Head(groups) \o Flatten(Tail(groups))

\* The text the words of one emitted segment give.
TextOfWords(words) ==
    CleanSubtitleText(Join([k \in 1..Len(words) |-> Strip(words[k].word)]))

\* C27: no word is lost, duplicated or reordered: the words of the emitted
\* segments, concatenated in output order, are the non-empty input words in
\* input order; each segment's text is made of its words; and no segment
\* holds words of two transcription segments.
C27_WordsPreserved ==
    Returned =>
        /\ Flatten(segment_words) = WithoutEmptyWords(AllWords(whisper_result))
        /\ \A i \in 1..Len(subtitle_segments) :
              segment_words[i] # <<>> =>
                  subtitle_segments[i].text = TextOfWords(segment_words[i])
        /\ {Len(WithoutEmptyWords(AllWords(SubSeq(whisper_result, 1, k)))) :
                k \in 0..Len(whisper_result)}
              \subseteq {Len(Flatten(SubSeq(segment_words, 1, k))) :
                            k \in 0..Len(segment_words)}

\* Two transcription segments of one word each, neither closing its buffer
\* in the loop: two segments, both from the flush.
C27_Witness ==
    /\ Returned
    /\ max_words_per_segment = 2
    /\ Len(whisper_result) = 2
    /\ \A i \in 1..2 :
          /\ Len(whisper_result[i].words) = 1
          /\ ~IsEmptyWord(whisper_result[i].words[1])
          /\ ~IsSentenceEnd(whisper_result[i].words[1].word)
          /\ whisper_result[i].words[1].end - whisper_result[i].words[1].start
                 <= MAX_SUBTITLE_DURATION
    /\ Len(subtitle_segments) = 2

\* The spans of the input in listing order: each word's, and the segment's
\* own for a segment without words.
RECURSIVE WordSpans(_)
WordSpans(words) ==
    IF words = <<>> THEN <<>>
    ELSE << <<Head(words).start, Head(words).end>> >> \o WordSpans(Tail(words))

RECURSIVE ListedSpans(_)
ListedSpans(segments) ==
    IF segments = <<>> THEN <<>>
    ELSE (IF Head(segments).words = <<>>
          THEN << <<Head(segments).start, Head(segments).end>> >>
          ELSE WordSpans(Head(segments).words)) \o ListedSpans(Tail(segments))

NonOverlapping(spans) ==
    \A i \in 1..(Len(spans) - 1) : spans[i][2] <= spans[i + 1][1]

\* C28: when the words of the input do not overlap and stand in time order
\* (each start <= its end <= the next start, across transcription segments
\* too), each returned segment ends no later than the next one starts.
C28_SegmentsDisjoint ==
    (Returned /\ NonOverlapping(ListedSpans(whisper_result))) =>
        \A i \in 1..(Len(subtitle_segments) - 1) :
            subtitle_segments[i].end <= subtitle_segments[i + 1].start

\* Two segments that touch: the first lasts and ends where the second starts.
C28_Witness ==
    /\ Returned
    /\ NonOverlapping(ListedSpans(whisper_result))
    /\ Len(subtitle_segments) = 2
    /\ segment_words[1] # <<>>
    /\ segment_words[2] # <<>>
    /\ subtitle_segments[1].start < subtitle_segments[1].end
    /\ subtitle_segments[1].end = subtitle_segments[2].start


(***************************************************************************)
(* utils.clean_old_files                                                   *)
(***************************************************************************)
FileNames == 1..MaxFiles

\* The extensions the pipeline cleans: audio files and data files.
Extensions == {".mp3", ".json"}

\* A directory: for every name the extension and modification time of the
\* file of that name, or NoFile; or no directory at all.
Directories ==
    {NoDirectory} \cup
    {[exists |-> TRUE, entries |-> f] :
        f \in [FileNames -> [ext : Extensions, mtime : 1..MaxMtime] \cup {NoFile}]}

\* files = [f for f in os.listdir(directory) if f.endswith(extension)]
FilesWithExtension(dir, ext) ==
    {f \in DOMAIN dir.entries : dir.entries[f].ext = ext}

\* file_paths.sort(key=getmtime, reverse=True): the files newest first. The
\* sort is stable and os.listdir lists in arbitrary order, so files of equal
\* modification time may come in any order.
SortedNewestFirst(names, dir) ==
    {q \in [1..Cardinality(names) -> names] :
        /\ \A i, j \in DOMAIN q : i # j => q[i] # q[j]
        /\ \A i \in 1..(Len(q) - 1) :
              dir.entries[q[i]].mtime >= dir.entries[q[i + 1]].mtime}

\* A slice that drops the tail of the list and keeps its head for removal.
FilesToRemove_Newest(file_paths, keep) ==
    SubSeq(file_paths, 1, Len(file_paths) - keep)

\* files_to_remove = file_paths[keep_count:]
FilesToRemove(file_paths, keep) ==
    SubSeq(file_paths, keep + 1, Len(file_paths))

CleanupInit ==
    /\ ComposeIdle
    /\ SubIdle
    /\ TextIdle
    /\ directory \in Directories
    /\ extension \in Extensions
    /\ keep_count \in 0..MaxKeep
    /\ files_to_remove = <<>>
    /\ cleanup_pc = "start"
    /\ listed = directory
    /\ remove_failed = {}

\* if not os.path.exists(directory): return
DirectoryMissing ==
    /\ cleanup_pc = "start"
    /\ ~directory.exists
    /\ cleanup_pc' = "returned"
    /\ UNCHANGED <<composeVars, subVars, textVars, runVars, directory,
                   extension, keep_count, files_to_remove, listed,
                   remove_failed>>

\* if len(files) <= keep_count: return
NothingToRemove ==
    /\ cleanup_pc = "start"
    /\ directory.exists
    /\ Cardinality(FilesWithExtension(directory, extension)) <= keep_count
    /\ cleanup_pc' = "returned"
    /\ UNCHANGED <<composeVars, subVars, textVars, runVars, directory,
                   extension, keep_count, files_to_remove, listed,
                   remove_failed>>

\* The listing, the sort and the slice.
ListAndSort ==
    /\ cleanup_pc = "start"
    /\ directory.exists
    /\ Cardinality(FilesWithExtension(directory, extension)) > keep_count
    /\ \E file_paths \in SortedNewestFirst(
                             FilesWithExtension(directory, extension), directory) :
          files_to_remove' = FilesToRemove(file_paths, keep_count)
    /\ cleanup_pc' = "remove"
    /\ UNCHANGED <<composeVars, subVars, textVars, runVars, directory,
                   extension, keep_count, listed, remove_failed>>

\* os.listdir or os.path.getmtime raises: the outer handler logs the error
\* and the function returns.
ListFails ==
    /\ cleanup_pc = "start"
    /\ directory.exists
    /\ cleanup_pc' = "caught"
    /\ UNCHANGED <<composeVars, subVars, textVars, runVars, directory,
                   extension, keep_count, files_to_remove, listed,
                   remove_failed>>

\* One iteration of "for file_path in files_to_remove": os.remove succeeds.
RemoveFile ==
    /\ cleanup_pc = "remove"
    /\ files_to_remove # <<>>
    /\ directory' = [directory EXCEPT !.entries[Head(files_to_remove)] = NoFile]
    /\ files_to_remove' = Tail(files_to_remove)
    /\ UNCHANGED <<composeVars, subVars, textVars, runVars, extension,
                   keep_count, cleanup_pc, listed, remove_failed>>

\* One iteration whose os.remove raises: the warning is logged and the loop
\* goes on with the next file.
RemoveFileFails ==
    /\ cleanup_pc = "remove"
    /\ files_to_remove # <<>>
    /\ remove_failed' = remove_failed \cup {Head(files_to_remove)}
    /\ files_to_remove' = Tail(files_to_remove)
    /\ UNCHANGED <<composeVars, subVars, textVars, runVars, directory,
                   extension, keep_count, cleanup_pc, listed>>

\* The loop is over: the summary is logged and the function returns.
CleanupReturns ==
    /\ cleanup_pc = "remove"
    /\ files_to_remove = <<>>
    /\ cleanup_pc' = "returned"
    /\ UNCHANGED <<composeVars, subVars, textVars, runVars, directory,
                   extension, keep_count, files_to_remove, listed,
                   remove_failed>>

CleanupNext ==
    \/ DirectoryMissing \/ NothingToRemove
    \/ ListAndSort \/ ListFails
    \/ RemoveFile \/ RemoveFileFails
    \/ CleanupReturns

SpecCleanup == CleanupInit /\ [][CleanupNext]_vars

\* C25: clean_old_files with keep_count >= 0 leaves exactly the
\* min(n, keep_count) most recently modified of the n files with the
\* extension when every removal succeeds, removes nothing when
\* n <= keep_count, never touches a file with another extension, and when
\* removing a file fails it skips that file, still removes the remaining
\* old files and raises nothing (a listing that fails is caught as well and
\* removes nothing).
C25_KeepsNewest ==
    LET matching == FilesWithExtension(listed, extension)
        remaining == FilesWithExtension(directory, extension)
        n == Cardinality(matching)
        kept == remaining \ remove_failed
        old == (matching \ remaining) \cup remove_failed
    IN  /\ cleanup_pc \in {"start", "remove", "returned", "caught"}
        /\ \A f \in DOMAIN listed.entries :
              /\ directory.entries[f] \in {listed.entries[f], NoFile}
              /\ listed.entries[f].ext # extension =>
                     directory.entries[f] = listed.entries[f]
        /\ cleanup_pc = "caught" => directory = listed
        /\ cleanup_pc = "returned" =>
              /\ n <= keep_count => directory = listed
              /\ remove_failed \subseteq remaining
              /\ Cardinality(kept) = Min(n, keep_count)
              /\ \A r \in kept, x \in old :
                    listed.entries[r].mtime >= listed.entries[x].mtime
              /\ remove_failed = {} =>
                    /\ Cardinality(remaining) = Min(n, keep_count)
                    /\ \A r \in remaining, x \in matching \ remaining :
                          listed.entries[r].mtime >= listed.entries[x].mtime

\* A call that kept the newest of three files, failed to remove one old
\* file and still removed the other.
C25_Witness ==
    /\ cleanup_pc = "returned"
    /\ keep_count = 1
    /\ Cardinality(FilesWithExtension(listed, extension)) = 3
    /\ Cardinality(remove_failed) = 1
    /\ Cardinality(FilesWithExtension(directory, extension)) = 2


(***************************************************************************)
(* Claims about the pipeline run.                                          *)
(***************************************************************************)
\* C24: if the start-up subtitle system check reports that text-overlay
\* rendering does not work while subtitle rendering is configured on,
\* subtitle rendering is disabled for the run: the later compose_video call
\* does not attempt to render subtitle overlays.
C24_RenderingDisabled ==
    (/\ subtitle_system_status # None
     /\ ~subtitle_system_status[1].textclip_working
     /\ PipelineConfig.RENDER_SUBTITLES) => ~SubtitlesRendered

\* The stages of a run, in the order of run_pipeline.
StageOrder ==
    <<"fetch", "narration", "background">>
        \o (IF PipelineConfig.GENERATE_SUBTITLES THEN <<"subtitles">> ELSE <<>>)
        \o <<"compose">>
        \o (IF AUTO_CLEANUP_ON_SUCCESS THEN <<"cleanup">> ELSE <<>>)

\* The stages whose result run_pipeline tests.
MandatoryStages == {"fetch", "narration", "background", "compose"}

\* The stage has put a result into the results dictionary.
Produced(stage) ==
    CASE stage = "fetch" ->
             results.reddit_post \notin {None, Some("None")}
      [] stage = "narration" ->
             results.audio_path \notin {None, Some("None")}
      [] stage = "background" ->
             results.background_video \notin {None, Some("None")}
      [] stage = "compose" ->
             /\ results.final_video_path # None
             /\ results.final_video_path[1].paths # <<>>
      [] OTHER -> TRUE

\* C29: run_pipeline executes its stages strictly in the order fetch post,
\* generate narration, get background video, generate subtitles, compose
\* video, cleanup: a stage starts only after every earlier mandatory stage
\* produced a result, the first failing mandatory stage ends the run with an
\* error and no later stage (cleanup included) runs, while an empty subtitle
\* result does not stop the run.
C29_StagesInOrder ==
    LET n == Len(stages)
    IN  /\ n <= Len(StageOrder)
        /\ stages = SubSeq(StageOrder, 1, n)
        /\ \A i \in 1..(n - 1) :
              stages[i] \in MandatoryStages => Produced(stages[i])
        /\ run_pc = "raised" =>
              /\ n > 0
              /\ stages[n] \in MandatoryStages
              /\ ~Produced(stages[n])
        /\ (n > 0 /\ stages[n] \in MandatoryStages /\ ~Produced(stages[n])) =>
              /\ run_pc \in {"compose", "check_path", "raised"}
              /\ stages[n] # "compose" => run_pc = "raised"
        /\ run_pc = "check_path" =>
              (ComposeFailed(final_video_path) <=> pc = "raised")
        /\ run_pc = "completed" =>
              /\ stages = StageOrder
              /\ \A i \in 1..n : Produced(stages[i])

\* A run that completed, cleanup included, although the subtitle stage gave
\* an empty list.
C29_Witness ==
    /\ run_pc = "completed"
    /\ results.subtitles = Some(<<>>)
    /\ stages = <<"fetch", "narration", "background", "subtitles", "compose",
                  "cleanup">>

====
